---- MODULE Spec2Model ----
(***************************************************************************)
(* Model of awesome_foamlib:                                               *)
(*   - download.download_cavity_tutorial(target_dir): the three-tier       *)
(*     acquisition of the cavity tutorial (existing marker, copy from the  *)
(*     system installation, per-file download), one filesystem or network  *)
(*     operation per step, for one caller (Spec) and for two callers that  *)
(*     do not serialize their calls (SpecConc);                            *)
(*   - docker_runner.DockerFoamRunner.run: create, stream logs, wait,      *)
(*     remove, check the exit status (SpecRun).                            *)
(***************************************************************************)
EXTENDS Naturals, Sequences, FiniteSets

(***************************************************************************)
(* Paths.  files_to_download is the manifest of download.py:68-76 in its   *)
(* insertion order (the order a dict is iterated in).  "Allrun" stands for *)
(* any other file at the top level of a case directory.                    *)
(***************************************************************************)
controlDict == "system/controlDict"

files_to_download ==
    << "system/controlDict", "system/fvSchemes", "system/fvSolution",
       "system/blockMeshDict", "0/U", "0/p", "constant/transportProperties" >>

NumFiles == Len(files_to_download)

Required == { files_to_download[k] : k \in 1..NumFiles }

Files == Required \cup {"Allrun"}

SubDirs == << "0", "constant", "system" >>

Dirs == { SubDirs[k] : k \in 1..Len(SubDirs) }

\* The directory a path lies in; "." is the case directory itself.
Parent(f) ==
    CASE f \in {"system/controlDict", "system/fvSchemes", "system/fvSolution",
                "system/blockMeshDict"} -> "system"
      [] f \in {"0/U", "0/p"} -> "0"
      [] f = "constant/transportProperties" -> "constant"
      [] OTHER -> "."

(***************************************************************************)
(* A directory tree: whether its root exists, which of the sub-directories *)
(* exist and which files exist.                                            *)
(***************************************************************************)
Absent == [exists |-> FALSE, dirs |-> {}, files |-> {}]

EmptyDir == [exists |-> TRUE, dirs |-> {}, files |-> {}]

FullCase == [exists |-> TRUE, dirs |-> Dirs, files |-> Files]

\* Path.exists() of a file below the root of tree t.
Exists(t, f) == f \in t.files

\* Path.iterdir(): the entries at the top level of tree t.
TopLevel(t) == t.dirs \cup { f \in t.files : Parent(f) = "." }

FilesIn(t, d) == { f \in t.files : Parent(f) = d }

\* target_dir.mkdir(parents=True, exist_ok=True)
MkdirParents(t) == [t EXCEPT !.exists = TRUE]

\* (target_dir / d).mkdir(exist_ok=True); the caller has checked t.exists.
Mkdir(t, d) == [t EXCEPT !.dirs = @ \cup {d}]

\* A file written at path f; its directory exists.
WriteFile(t, f) == [t EXCEPT !.files = @ \cup {f}]

\* Whether a file can be opened for writing at path f of tree t.
CanWrite(t, f) == IF Parent(f) = "." THEN t.exists ELSE Parent(f) \in t.dirs

\* shutil.copytree(item, target_dir / item.name, dirs_exist_ok=True) having
\* copied the files S of directory d: makedirs creates d and its parents.
CopyTree(t, d, S) ==
    [exists |-> TRUE, dirs |-> t.dirs \cup {d}, files |-> t.files \cup S]

\* A removal of what the download writes only: the root and foreign files stay.
RmTreeWritten(t) == [exists |-> TRUE, dirs |-> {}, files |-> t.files \ Required]

\* shutil.rmtree(target_dir, ignore_errors=True)
RmTree(t) == Absent


\* The message of the RuntimeError of download.py:101-105; an entry of
\* download_errors is modelled by the remote path it names.
ErrorMsg(errs) ==
    IF errs # << >>
    THEN [text |-> "Failed to download OpenFOAM tutorial. Errors: ", errors |-> errs]
    ELSE [text |-> "controlDict not found after download", errors |-> << >>]

(***************************************************************************)
(* State.                                                                  *)
(***************************************************************************)
Callers == {1, 2}

VARIABLES
    target_dir,        \* the tree at target_dir
    system_tutorial,   \* the tree at the system installation path
    pc,                \* pc[p]: where caller p is in download_cavity_tutorial
    todo,              \* todo[p]: entries of system_tutorial.iterdir() not yet copied
    idx,               \* idx[p]: position in the mkdir sequence / the download loop
    download_errors,   \* download_errors[p]: the list of download.py:84
    result,            \* result[p]: how the call of p ended
    before,            \* before[p]: target_dir as it was when the call began
    copy_state,        \* copy_state[p]: "none", or how far the system copy got
    wiped,             \* wiped[p]: another caller's cleanup ran during the call of p
    requests,          \* requests[p]: the transfers issued, <<path, outcome>> each
    prev,              \* the last call that ended: how, and target_dir before it
    network,           \* network[p]: what the transfers of caller p can meet
    calls              \* calls[p]: the calls p has begun (counted under SpecConc)

dvars == << target_dir, system_tutorial, pc, todo, idx, download_errors, result,
            before, copy_state, wiped, requests, prev, network, calls >>

VARIABLES
    rpc,               \* where DockerFoamRunner.run is
    container,         \* the container of this run: "none", "running", "exited", "removed"
    exit_code,         \* the status the command exited with in the container
    status_code,       \* result["StatusCode"], once wait has returned
    logged,            \* the log lines streamed in this run
    exc,               \* the exception run raised, and the step that raised it
    leaked             \* containers earlier runs created and never removed

rvars == << rpc, container, exit_code, status_code, logged, exc, leaked >>

vars == << dvars, rvars >>

\* What a transfer can meet: the file arrives; URLError or OSError before
\* anything is written; ContentTooShortError after a short file is written.
Outcomes == {"ok", "failed", "short"}

\* The calls each caller makes under SpecConc.
MaxCalls == 1

\* network[p] = "any": each transfer of p meets any of the outcomes.
Meets(p, o) == network[p] \in {"any", o}

\* No exception, no message.
NoMsg == [text |-> "", errors |-> << >>]

NoResult == [kind |-> "none", how |-> "none", msg |-> NoMsg]

\* return target_dir, by the tier that returned.
Returned(how) == [kind |-> "return", how |-> how, msg |-> NoMsg]

Raised(type, msg) == [kind |-> "raise", how |-> type, msg |-> msg]

(***************************************************************************)
(* DockerFoamRunner.run (docker_runner.py:41-125).                         *)
(***************************************************************************)
\* Exit statuses 0..MaxStatus, at most MaxLogLines log lines in a run and
\* at most MaxLeaked containers left behind.
MaxStatus == 2

MaxLogLines == 2

MaxLeaked == 2

NoExc == [type |-> "none", at |-> "none"]

RInit ==
    /\ rpc = "idle"
    /\ container = "none"
    /\ exit_code = 0
    /\ status_code = 0
    /\ logged = 0
    /\ exc = NoExc
    /\ leaked = 0

\* A directory that is neither empty nor a case: no system/controlDict.
Stale == [exists |-> TRUE, dirs |-> {"0"}, files |-> {"0/U", "Allrun"}]

TargetStates == {Absent, EmptyDir, Stale}

SystemStates == {Absent, FullCase}

DInit ==
    /\ target_dir \in TargetStates
    /\ system_tutorial \in SystemStates
    /\ pc = [p \in Callers |-> "idle"]
    /\ todo = [p \in Callers |-> {}]
    /\ idx = [p \in Callers |-> 1]
    /\ download_errors = [p \in Callers |-> << >>]
    /\ result = [p \in Callers |-> NoResult]
    /\ before = [p \in Callers |-> Absent]
    /\ copy_state = [p \in Callers |-> "none"]
    /\ wiped = [p \in Callers |-> FALSE]
    /\ requests = [p \in Callers |-> << >>]
    /\ prev = [how |-> "none", before |-> Absent]
    /\ network = [p \in Callers |-> "any"]
    /\ calls = [p \in Callers |-> 0]
    /\ RInit

(***************************************************************************)
(* download_cavity_tutorial, one step per filesystem or network operation. *)
(***************************************************************************)
\* The call begins.
Begin(p) ==
    /\ pc[p] = "idle"
    /\ pc' = [pc EXCEPT ![p] = "mkdir"]
    /\ before' = [before EXCEPT ![p] = target_dir]
    /\ UNCHANGED << target_dir, system_tutorial, todo, idx, download_errors, result,
                    copy_state, wiped, requests, prev, network, calls >>
    /\ UNCHANGED rvars

\* The call begins, for a caller that makes at most MaxCalls calls.
BeginBounded(p) ==
    /\ pc[p] = "idle"
    /\ calls[p] < MaxCalls
    /\ calls' = [calls EXCEPT ![p] = @ + 1]
    /\ pc' = [pc EXCEPT ![p] = "mkdir"]
    /\ before' = [before EXCEPT ![p] = target_dir]
    /\ UNCHANGED << target_dir, system_tutorial, todo, idx, download_errors, result,
                    copy_state, wiped, requests, prev, network >>
    /\ UNCHANGED rvars

\* download.py:29
EnsureTarget(p) ==
    /\ pc[p] = "mkdir"
    /\ target_dir' = MkdirParents(target_dir)
    /\ pc' = [pc EXCEPT ![p] = "check"]
    /\ UNCHANGED << system_tutorial, todo, idx, download_errors, result, before,
                    copy_state, wiped, requests, prev, network, calls >>
    /\ UNCHANGED rvars

\* (target_dir / "system" / "controlDict").exists()
MarkerExists(t) == Exists(t, controlDict)

\* download.py:32
NeverSetUp(t) == FALSE

AlreadySetUp(t) == MarkerExists(t)

\* download.py:31-34
CheckExisting(p) ==
    /\ pc[p] = "check"
    /\ IF AlreadySetUp(target_dir)
       THEN /\ pc' = [pc EXCEPT ![p] = "returned"]
            /\ result' = [result EXCEPT ![p] = Returned("existing")]
       ELSE /\ pc' = [pc EXCEPT ![p] = "probe"]
            /\ UNCHANGED result
    /\ UNCHANGED << target_dir, system_tutorial, todo, idx, download_errors, before,
                    copy_state, wiped, requests, prev, network, calls >>
    /\ UNCHANGED rvars

\* download.py:41: the system installation is usable.
SystemNeverUsable(s) == FALSE

SystemUsable(s) == s.exists /\ Exists(s, controlDict)

\* download.py:37-45
ProbeSystem(p) ==
    /\ pc[p] = "probe"
    /\ IF SystemUsable(system_tutorial)
       THEN /\ pc' = [pc EXCEPT ![p] = "copy"]
            /\ todo' = [todo EXCEPT ![p] = TopLevel(system_tutorial)]
            /\ copy_state' = [copy_state EXCEPT ![p] = "copying"]
       ELSE /\ pc' = [pc EXCEPT ![p] = "subdirs"]
            /\ UNCHANGED << todo, copy_state >>
    /\ UNCHANGED << target_dir, system_tutorial, idx, download_errors, result, before,
                    wiped, requests, prev, network, calls >>
    /\ UNCHANGED rvars

\* What a copytree that raised has copied of the files src of an entry:
\* all, none, only the marker or all but the marker.
PartialCopies(src) == { {}, src \cap {controlDict}, src \ {controlDict}, src }

\* download.py:56-57: where the flow goes when the copy raised.
OnCopyErrorPropagate == "raised"

OnCopyErrorRetry == "probe"

OnCopyError == "subdirs"

\* download.py:45-49 and 56-57: one entry of the installation is copied.  A
\* copy that raises OSError or shutil.Error has copied part of the entry;
\* the except clause logs and the flow goes on to the download tier.
CopyItem(p) ==
    /\ pc[p] = "copy"
    /\ \E item \in todo[p] :
         LET src == FilesIn(system_tutorial, item) IN
         \/ /\ item \in Dirs
            /\ target_dir' = CopyTree(target_dir, item, src)
            /\ todo' = [todo EXCEPT ![p] = @ \ {item}]
            /\ UNCHANGED << pc, copy_state >>
         \/ /\ item \in Dirs
            /\ \E S \in PartialCopies(src) : target_dir' = CopyTree(target_dir, item, S)
            /\ todo' = [todo EXCEPT ![p] = {}]
            /\ pc' = [pc EXCEPT ![p] = OnCopyError]
            /\ copy_state' = [copy_state EXCEPT ![p] = "raised"]
         \/ /\ item \notin Dirs
            /\ CanWrite(target_dir, item)
            /\ target_dir' = WriteFile(target_dir, item)
            /\ todo' = [todo EXCEPT ![p] = @ \ {item}]
            /\ UNCHANGED << pc, copy_state >>
         \/ /\ target_dir' = target_dir
            /\ todo' = [todo EXCEPT ![p] = {}]
            /\ pc' = [pc EXCEPT ![p] = OnCopyError]
            /\ copy_state' = [copy_state EXCEPT ![p] = "raised"]
    /\ UNCHANGED << system_tutorial, idx, download_errors, result, before,
                    wiped, requests, prev, network, calls >>
    /\ UNCHANGED rvars

\* download.py:52
CopyVerified(t) == MarkerExists(t)

\* download.py:51-55
VerifyCopy(p) ==
    /\ pc[p] = "copy"
    /\ todo[p] = {}
    /\ IF CopyVerified(target_dir)
       THEN /\ pc' = [pc EXCEPT ![p] = "returned"]
            /\ result' = [result EXCEPT ![p] = Returned("copied")]
            /\ copy_state' = [copy_state EXCEPT ![p] = "verified"]
       ELSE /\ pc' = [pc EXCEPT ![p] = "subdirs"]
            /\ copy_state' = [copy_state EXCEPT ![p] = "incomplete"]
            /\ UNCHANGED result
    /\ UNCHANGED << target_dir, system_tutorial, todo, idx, download_errors, before,
                    wiped, requests, prev, network, calls >>
    /\ UNCHANGED rvars

\* download.py:63-65: mkdir(exist_ok=True) without parents raises
\* FileNotFoundError, which nothing catches, when target_dir is gone.
MakeSubdir(p) ==
    /\ pc[p] = "subdirs"
    /\ IF target_dir.exists
       THEN /\ target_dir' = Mkdir(target_dir, SubDirs[idx[p]])
            /\ IF idx[p] < Len(SubDirs)
               THEN /\ idx' = [idx EXCEPT ![p] = @ + 1]
                    /\ pc' = pc
               ELSE /\ idx' = [idx EXCEPT ![p] = 1]
                    /\ pc' = [pc EXCEPT ![p] = "download"]
            /\ UNCHANGED result
       ELSE /\ pc' = [pc EXCEPT ![p] = "raised"]
            /\ result' = [result EXCEPT ![p] = Raised("FileNotFoundError", NoMsg)]
            /\ UNCHANGED << target_dir, idx >>
    /\ UNCHANGED << system_tutorial, todo, download_errors, before, copy_state, wiped,
                    requests, prev, network, calls >>
    /\ UNCHANGED rvars

\* download.py:92-95: the except clause records the failed path.
RecordNothing(errs, f) == errs

RecordError(errs, f) == Append(errs, f)

\* download.py:85: the loop goes on to the next entry whatever the transfer met.
AbortOnError(i, o) == IF o = "ok" THEN i + 1 ELSE NumFiles + 1

AfterTransfer(i, o) == i + 1

\* download.py:85-95: one turn of the loop.  urlretrieve opens the URL, then
\* the local file, then copies: it raises URLError or OSError with no file
\* written ("failed", also when the local file cannot be opened), or
\* ContentTooShortError (a URLError) after writing what it received
\* ("short"); each is caught and recorded.
Download(p) ==
    /\ pc[p] = "download"
    /\ idx[p] <= NumFiles
    /\ LET f == files_to_download[idx[p]] IN
         \/ /\ Meets(p, "ok") /\ CanWrite(target_dir, f)
            /\ target_dir' = WriteFile(target_dir, f)
            /\ download_errors' = download_errors
            /\ requests' = [requests EXCEPT ![p] = Append(@, << f, "ok" >>)]
            /\ idx' = [idx EXCEPT ![p] = AfterTransfer(@, "ok")]
         \/ /\ Meets(p, "failed") \/ ~CanWrite(target_dir, f)
            /\ target_dir' = target_dir
            /\ download_errors' = [download_errors EXCEPT ![p] = RecordError(@, f)]
            /\ requests' = [requests EXCEPT ![p] = Append(@, << f, "failed" >>)]
            /\ idx' = [idx EXCEPT ![p] = AfterTransfer(@, "failed")]
         \/ /\ Meets(p, "short") /\ CanWrite(target_dir, f)
            /\ target_dir' = WriteFile(target_dir, f)
            /\ download_errors' = [download_errors EXCEPT ![p] = RecordError(@, f)]
            /\ requests' = [requests EXCEPT ![p] = Append(@, << f, "short" >>)]
            /\ idx' = [idx EXCEPT ![p] = AfterTransfer(@, "short")]
    /\ UNCHANGED << system_tutorial, pc, todo, result, before, copy_state, wiped, prev,
                    network, calls >>
    /\ UNCHANGED rvars

\* download.py:98
AlwaysVerified(t) == TRUE

DownloadVerified(t) == MarkerExists(t)

\* download.py:97-98 and 108-109
VerifyDownload(p) ==
    /\ pc[p] = "download"
    /\ idx[p] = NumFiles + 1
    /\ IF DownloadVerified(target_dir)
       THEN /\ pc' = [pc EXCEPT ![p] = "returned"]
            /\ result' = [result EXCEPT ![p] = Returned("downloaded")]
       ELSE /\ pc' = [pc EXCEPT ![p] = "cleanup"]
            /\ UNCHANGED result
    /\ UNCHANGED << target_dir, system_tutorial, todo, idx, download_errors, before,
                    copy_state, wiped, requests, prev, network, calls >>
    /\ UNCHANGED rvars

\* download.py:99-106: the tree is removed and RuntimeError raised.  Callers
\* in the middle of a call have the directory removed under them.
Cleanup(p) ==
    /\ pc[p] = "cleanup"
    /\ target_dir' = RmTree(target_dir)
    /\ pc' = [pc EXCEPT ![p] = "raised"]
    /\ result' = [result EXCEPT ![p] = Raised("RuntimeError", ErrorMsg(download_errors[p]))]
    /\ wiped' = [q \in Callers |-> IF q # p /\ pc[q] # "idle" THEN TRUE ELSE wiped[q]]
    /\ UNCHANGED << system_tutorial, todo, idx, download_errors, before, copy_state,
                    requests, prev, network, calls >>
    /\ UNCHANGED rvars

\* The caller has the result and the call's locals are gone; the next call
\* may begin.
Finish(p) ==
    /\ pc[p] \in {"returned", "raised"}
    /\ pc' = [pc EXCEPT ![p] = "idle"]
    /\ prev' = [how |-> result[p].how, before |-> before[p]]
    /\ todo' = [todo EXCEPT ![p] = {}]
    /\ idx' = [idx EXCEPT ![p] = 1]
    /\ download_errors' = [download_errors EXCEPT ![p] = << >>]
    /\ result' = [result EXCEPT ![p] = NoResult]
    /\ before' = [before EXCEPT ![p] = Absent]
    /\ copy_state' = [copy_state EXCEPT ![p] = "none"]
    /\ wiped' = [wiped EXCEPT ![p] = FALSE]
    /\ requests' = [requests EXCEPT ![p] = << >>]
    /\ UNCHANGED << target_dir, system_tutorial, network, calls >>
    /\ UNCHANGED rvars

\* The environment: the installation loses its controlDict (a package being
\* removed or upgraded) while a copy may be under way.
SystemLosesMarker ==
    /\ SystemUsable(system_tutorial)
    /\ system_tutorial' = [system_tutorial EXCEPT !.files = @ \ {controlDict}]
    /\ UNCHANGED << target_dir, pc, todo, idx, download_errors, result, before,
                    copy_state, wiped, requests, prev, network, calls >>
    /\ UNCHANGED rvars

Call(p) ==
    \/ EnsureTarget(p)
    \/ CheckExisting(p)
    \/ ProbeSystem(p)
    \/ CopyItem(p)
    \/ VerifyCopy(p)
    \/ MakeSubdir(p)
    \/ Download(p)
    \/ VerifyDownload(p)
    \/ Cleanup(p)
    \/ Finish(p)

\* run is called.
RunBegin ==
    /\ rpc = "idle"
    /\ leaked < MaxLeaked
    /\ rpc' = "create"
    /\ UNCHANGED << container, exit_code, status_code, logged, exc, leaked >>
    /\ UNCHANGED dvars

\* docker_runner.py:101-112: every except clause logs and re-raises.
Reraise(type, at) == [type |-> type, at |-> at]

\* docker_runner.py:77-85: containers.run(detach=True) returns the started
\* container, or raises ImageNotFound or another DockerException (APIError).
Create ==
    /\ rpc = "create"
    /\ \/ /\ container' = "running"
          /\ rpc' = "logs"
          /\ exc' = exc
       \/ /\ \E t \in {"ImageNotFound", "DockerException"} : exc' = Reraise(t, "create")
          /\ rpc' = "raised"
          /\ container' = container
    /\ UNCHANGED << exit_code, status_code, logged, leaked >>
    /\ UNCHANGED dvars

\* The command ends in the container with some exit status.
ContainerExits ==
    /\ container = "running"
    /\ container' = "exited"
    /\ \E c \in 0..MaxStatus : exit_code' = c
    /\ UNCHANGED << rpc, status_code, logged, exc, leaked >>
    /\ UNCHANGED dvars

\* docker_runner.py:88-89: one line of the stream is logged, the stream
\* ends with the container, or the stream (or decoding a line) raises.
StreamLogs ==
    /\ rpc = "logs"
    /\ \/ /\ logged < MaxLogLines
          /\ logged' = logged + 1
          /\ UNCHANGED << rpc, exc >>
       \/ /\ container = "exited"
          /\ rpc' = "wait"
          /\ UNCHANGED << logged, exc >>
       \/ /\ \E t \in {"DockerException", "Exception"} : exc' = Reraise(t, "logs")
          /\ rpc' = "raised"
          /\ UNCHANGED logged
    /\ UNCHANGED << container, exit_code, status_code, leaked >>
    /\ UNCHANGED dvars

\* docker_runner.py:92: wait returns once the container has exited, or raises.
Wait ==
    /\ rpc = "wait"
    /\ \/ /\ container = "exited"
          /\ status_code' = exit_code
          /\ rpc' = "remove"
          /\ exc' = exc
       \/ /\ exc' = Reraise("DockerException", "wait")
          /\ rpc' = "raised"
          /\ status_code' = status_code
    /\ UNCHANGED << container, exit_code, logged, leaked >>
    /\ UNCHANGED dvars

\* A run that goes on to the check of the status without removing.
RemoveSkipped ==
    /\ rpc = "remove"
    /\ rpc' = "check"
    /\ UNCHANGED << container, exit_code, status_code, logged, exc, leaked >>
    /\ UNCHANGED dvars

\* docker_runner.py:95: the container is removed, or remove raises.
Remove ==
    /\ rpc = "remove"
    /\ \/ /\ container' = "removed"
          /\ rpc' = "check"
          /\ exc' = exc
       \/ /\ exc' = Reraise("DockerException", "remove")
          /\ rpc' = "raised"
          /\ container' = container
    /\ UNCHANGED << exit_code, status_code, logged, leaked >>
    /\ UNCHANGED dvars

\* docker_runner.py:114-125: the exception _handle_failure raises.
HandleFailure(status) == "RuntimeError"

\* docker_runner.py:98: the test of the exit status.
Failed(status) == status # 0

\* docker_runner.py:97-99 and 110-112
CheckExit ==
    /\ rpc = "check"
    /\ IF Failed(status_code)
       THEN /\ exc' = Reraise(HandleFailure(status_code), "check")
            /\ rpc' = "raised"
       ELSE /\ rpc' = "returned"
            /\ exc' = exc
    /\ UNCHANGED << container, exit_code, status_code, logged, leaked >>
    /\ UNCHANGED dvars

\* The caller has the outcome; a container that was created and not removed
\* stays on the daemon.
RunFinish ==
    /\ rpc \in {"returned", "raised"}
    /\ rpc' = "idle"
    /\ leaked' = IF container \in {"running", "exited"} THEN leaked + 1 ELSE leaked
    /\ container' = "none"
    /\ exit_code' = 0
    /\ status_code' = 0
    /\ logged' = 0
    /\ exc' = NoExc
    /\ UNCHANGED dvars

RNext ==
    \/ RunBegin
    \/ Create
    \/ ContainerExits
    \/ StreamLogs
    \/ Wait
    \/ Remove
    \/ CheckExit
    \/ RunFinish

\* The runner alone; the tutorial directory is left as it is.
SpecRun == DInit /\ [][RNext]_vars

\* One caller: every call ends before the next begins.
Next == Begin(1) \/ Call(1) \/ SystemLosesMarker

Spec == DInit /\ [][Next]_vars

\* Two callers that do not serialize their calls on the same target_dir.
NextConc == \E p \in Callers : BeginBounded(p) \/ Call(p)

\* Under SpecConc target_dir does not exist at first, the installation does
\* not change, and the network is steady for each caller: all the transfers
\* of one caller meet the same outcome.
CInit ==
    /\ target_dir = Absent
    /\ system_tutorial \in SystemStates
    /\ pc = [p \in Callers |-> "idle"]
    /\ todo = [p \in Callers |-> {}]
    /\ idx = [p \in Callers |-> 1]
    /\ download_errors = [p \in Callers |-> << >>]
    /\ result = [p \in Callers |-> NoResult]
    /\ before = [p \in Callers |-> Absent]
    /\ copy_state = [p \in Callers |-> "none"]
    /\ wiped = [p \in Callers |-> FALSE]
    /\ requests = [p \in Callers |-> << >>]
    /\ prev = [how |-> "none", before |-> Absent]
    /\ network \in [Callers -> Outcomes]
    /\ calls = [p \in Callers |-> 0]
    /\ RInit

SpecConc == CInit /\ [][NextConc]_vars

(***************************************************************************)
(* Properties.                                                             *)
(***************************************************************************)
Ended(p) == pc[p] \in {"returned", "raised"}

\* The paths of the transfers of rs that did not deliver the file, in order.
FailedPaths(rs) ==
    LET F[k \in 0..Len(rs)] ==
          IF k = 0 THEN << >>
          ELSE IF rs[k][2] = "ok" THEN F[k - 1] ELSE Append(F[k - 1], rs[k][1])
    IN F[Len(rs)]

\* C1: whenever a call returns successfully, by any of the three paths,
\* target_dir holds all seven required files.
C1_ReturnHasAllSeven ==
    \A p \in Callers : pc[p] = "returned" => Required \subseteq target_dir.files

\* C2: if the system tutorial path is absent and all seven transfers fail,
\* the call raises, and target_dir holds no system/controlDict when it does.
C2_AllFailedRaisesClean ==
    \A p \in Callers :
        ( /\ Ended(p)
          /\ ~system_tutorial.exists
          /\ Len(requests[p]) = NumFiles
          /\ \A k \in 1..NumFiles : requests[p][k][2] # "ok" )
        => pc[p] = "raised" /\ ~Exists(target_dir, controlDict)

\* C3: a call that begins with target_dir/system/controlDict in place goes
\* from the mkdir to the marker test to its return and nowhere else: it
\* never changes target_dir, never enters the copy tier, issues no transfer
\* and returns by the existing marker; after two such calls in a row
\* target_dir is what it was before the first.
C3_ShortCircuit ==
    \A p \in Callers :
        (pc[p] # "idle" /\ Exists(before[p], controlDict))
        => /\ pc[p] \in {"mkdir", "check", "returned"}
           /\ target_dir = before[p]
           /\ copy_state[p] = "none"
           /\ requests[p] = << >>
           /\ pc[p] = "returned" => result[p] = Returned("existing")
           /\ prev.how = "existing" => target_dir = prev.before

C3_Witness ==
    \E p \in Callers :
        /\ pc[p] = "returned"
        /\ result[p] = Returned("existing")
        /\ prev.how = "existing"
        /\ target_dir = prev.before
        /\ Exists(target_dir, controlDict)

\* C4: with a usable system installation the copy comes before any
\* transfer: no transfer has been issued while the copy runs, a call is past
\* the copy tier only after the copy was attempted, and a call that returns
\* after the copy has target_dir/system/controlDict and issued no transfer.
C4_SystemCopyFirst ==
    \A p \in Callers :
        /\ pc[p] = "copy" => requests[p] = << >>
        /\ ( /\ pc[p] \in {"subdirs", "download", "cleanup"}
             /\ system_tutorial.exists
             /\ Exists(system_tutorial, controlDict) )
           => copy_state[p] \in {"raised", "incomplete"}
        /\ (pc[p] = "returned" /\ copy_state[p] = "verified")
           => /\ result[p] = Returned("copied")
              /\ requests[p] = << >>
              /\ Exists(target_dir, controlDict)
        /\ (pc[p] = "returned" /\ result[p] = Returned("copied"))
           => copy_state[p] = "verified"

C4_Witness ==
    \E p \in Callers :
        /\ pc[p] = "returned"
        /\ result[p] = Returned("copied")
        /\ ~Exists(before[p], controlDict)
        /\ requests[p] = << >>

\* C5: a call that reaches the download tier and whose transfer of
\* system/controlDict fails raises, whatever the other six transfers did.
C5_MarkerFailureRaises ==
    \A p \in Callers :
        (Ended(p) /\ requests[p] # << >> /\ requests[p][1][2] # "ok")
        => pc[p] = "raised"

\* C6: in the download tier the files are requested once each, in the order
\* of the manifest, whatever the earlier transfers met: the k-th transfer is
\* for the k-th file, and the tier is left only after all seven.
C6_EachFileOnceInOrder ==
    \A p \in Callers :
        /\ Len(requests[p]) <= NumFiles
        /\ \A k \in 1..Len(requests[p]) : requests[p][k][1] = files_to_download[k]
        /\ pc[p] = "download" => Len(requests[p]) = idx[p] - 1
        /\ ( \/ pc[p] = "cleanup"
             \/ (Ended(p) /\ result[p].how \in {"downloaded", "RuntimeError"}) )
           => Len(requests[p]) = NumFiles

C6_Witness ==
    \E p \in Callers :
        /\ Ended(p)
        /\ Len(requests[p]) = NumFiles
        /\ requests[p][1][2] = "failed"
        /\ requests[p][2][2] = "ok"
        /\ requests[p][NumFiles][2] = "short"

\* C7: the error of a call that fails is a single RuntimeError whose
\* message lists, in the order of the transfers, exactly the files whose
\* transfer failed.
C7_ErrorListsFailures ==
    \A p \in Callers :
        pc[p] = "raised"
        => /\ result[p].how = "RuntimeError"
           /\ result[p].msg = ErrorMsg(FailedPaths(requests[p]))
           /\ result[p].msg.errors # << >>

C7_Witness ==
    \E p \in Callers :
        /\ pc[p] = "raised"
        /\ Len(result[p].msg.errors) = 3
        /\ \E k \in 1..NumFiles : requests[p][k][2] = "ok"

\* C8: a system copy that raised, or that ended without
\* system/controlDict, raises nothing: the call goes on to the download
\* tier, and raises only after the seven transfers, with
\* system/controlDict still missing when the tier ended.
C8_CopyFailureFallsThrough ==
    \A p \in Callers :
        copy_state[p] \in {"raised", "incomplete"}
        => /\ pc[p] \in {"subdirs", "download", "cleanup", "returned", "raised"}
           /\ pc[p] = "cleanup" => ~Exists(target_dir, controlDict)
           /\ pc[p] \in {"cleanup", "raised"} => Len(requests[p]) = NumFiles
           /\ pc[p] = "raised" => result[p].how = "RuntimeError"
           /\ pc[p] = "returned" => result[p] = Returned("downloaded")

C8_Witness ==
    \E p \in Callers :
        /\ copy_state[p] = "incomplete"
        /\ pc[p] = "raised"
        /\ Len(requests[p]) = NumFiles

C8_WitnessCopyRaised ==
    \E p \in Callers :
        /\ copy_state[p] = "raised"
        /\ pc[p] = "returned"
        /\ result[p] = Returned("downloaded")

\* C9: of two calls that are not serialized, one can have returned
\* target_dir while target_dir/system/controlDict does not exist (the
\* witness), and that happens only when the other call's cleanup removed
\* the directory during the call.
C9_MissingOnlyByOthersCleanup ==
    \A p \in Callers :
        (pc[p] = "returned" /\ ~Exists(target_dir, controlDict)) => wiped[p]

C9_Witness ==
    \E p \in Callers, q \in Callers :
        /\ p # q
        /\ pc[p] = "returned"
        /\ result[p] = Returned("downloaded")
        /\ ~Exists(target_dir, controlDict)
        /\ wiped[p]
        /\ pc[q] = "raised"

\* C10: run raises ContainerError when the command exits with a non-zero
\* status, and returns when it exits with status zero.
C10_NonZeroRaisesContainerError ==
    (rpc \in {"returned", "raised"} /\ container = "removed")
    => IF status_code # 0
       THEN rpc = "raised" /\ exc.type = "ContainerError"
       ELSE rpc = "returned" /\ exc = NoExc

\* The tier a call is in: 1 the test for an existing case (and the probe of
\* the installation that follows it), 2 the system copy, 3 the download;
\* 4 once it has ended, 0 between calls.
Tier(p) ==
    CASE pc[p] \in {"mkdir", "check", "probe"} -> 1
      [] pc[p] = "copy" -> 2
      [] pc[p] \in {"subdirs", "download", "cleanup"} -> 3
      [] pc[p] \in {"returned", "raised"} -> 4
      [] OTHER -> 0

\* The steps a call can still take, at most.
Rank(p) ==
    CASE pc[p] = "mkdir" -> NumFiles + Len(SubDirs) + Cardinality(Files) + 8
      [] pc[p] = "check" -> NumFiles + Len(SubDirs) + Cardinality(Files) + 7
      [] pc[p] = "probe" -> NumFiles + Len(SubDirs) + Cardinality(Files) + 6
      [] pc[p] = "copy" -> NumFiles + Len(SubDirs) + Cardinality(todo[p]) + 5
      [] pc[p] = "subdirs" -> NumFiles + (Len(SubDirs) - idx[p]) + 4
      [] pc[p] = "download" -> (NumFiles + 1 - idx[p]) + 2
      [] pc[p] = "cleanup" -> 1
      [] OTHER -> 0

\* The four ways a call ends, each with the tiers it went through.
C11_Outcome(p) ==
    \/ /\ result[p] = Returned("existing")
       /\ copy_state[p] = "none" /\ requests[p] = << >>
    \/ /\ result[p] = Returned("copied")
       /\ copy_state[p] = "verified" /\ requests[p] = << >>
    \/ /\ result[p] = Returned("downloaded")
       /\ copy_state[p] # "verified" /\ Len(requests[p]) = NumFiles
    \/ /\ result[p].kind = "raise"
       /\ copy_state[p] # "verified" /\ Len(requests[p]) = NumFiles

\* C11: every call ends, in exactly one of four ways: return at the test
\* for an existing case, return after the system copy, return after the
\* download, or raise.  A call that has not ended can take a step, every
\* step of a call brings its end nearer, and the tiers are entered in the
\* order test, copy, download, none of them twice: the copy is entered
\* from the test only, the download after the test or the copy, and a step
\* never leads back to an earlier tier.
C11_TiersInOrder ==
    /\ [](\A p \in Callers :
            /\ pc[p] = "returned" => result[p].kind = "return"
            /\ pc[p] = "raised" => result[p].kind = "raise"
            /\ Ended(p) => C11_Outcome(p)
            /\ ~Ended(p) => result[p] = NoResult
            /\ Tier(p) \in 1..3 => ENABLED Call(p)
            /\ Tier(p) = 1 => copy_state[p] = "none" /\ requests[p] = << >>
            /\ Tier(p) = 2 => copy_state[p] = "copying" /\ requests[p] = << >>
            /\ Tier(p) = 3 => copy_state[p] \in {"none", "raised", "incomplete"})
    /\ [][\A p \in Callers :
            (Tier(p) \in 1..3 /\ pc'[p] # pc[p])
            => /\ Tier(p)' >= Tier(p)
               /\ Tier(p)' = 2 => Tier(p) \in {1, 2}
               /\ Rank(p)' < Rank(p)]_vars
    /\ [][\A p \in Callers :
            (Tier(p) \in 1..3 /\ pc'[p] = pc[p] /\ << todo[p], idx[p] >>' # << todo[p], idx[p] >>)
            => Rank(p)' < Rank(p)]_vars

C11_Witness ==
    \E p \in Callers :
        /\ pc[p] = "raised"
        /\ copy_state[p] = "raised"
        /\ Len(requests[p]) = NumFiles

C13_Follows(at) ==
    CASE at = "create" -> "logs"
      [] at = "logs" -> "wait"
      [] at = "wait" -> "remove"
      [] at = "remove" -> "check"
      [] at = "check" -> "returned"
      [] OTHER -> "idle"

\* C13: run creates the container, streams its logs to the end, waits for
\* its exit, removes it and checks the exit status, in this order.  The
\* logs and the wait are reached with the container in place, the wait
\* only after the stream ended; once wait has returned, the check of the
\* status, the return and the raise for a non-zero status all find the
\* container removed; when the log stream or wait raises, run raises that
\* error at once and the container is still there when run ends, left
\* behind on the daemon.
C13_RemoveBeforeCheck ==
    /\ [](/\ rpc = "create" => container = "none"
          /\ rpc = "logs" => container \in {"running", "exited"}
          /\ rpc \in {"wait", "remove"} => container = "exited"
          /\ rpc = "remove" => status_code = exit_code
          /\ rpc = "check" => container = "removed"
          /\ rpc = "returned" => container = "removed" /\ status_code = 0 /\ exc = NoExc
          /\ rpc = "raised" <=> exc # NoExc
          /\ (rpc = "raised" /\ exc.at = "check")
             => container = "removed" /\ status_code # 0
          /\ (rpc = "raised" /\ exc.at \in {"logs", "wait"})
             => container \in {"running", "exited"})
    /\ [][(rpc \in {"create", "logs", "wait", "remove", "check"} /\ rpc' # rpc)
          => \/ rpc' = C13_Follows(rpc)
             \/ rpc' = "raised" /\ exc'.at = rpc]_vars
    /\ [][(rpc = "raised" /\ exc.at \in {"logs", "wait"} /\ rpc' # rpc)
          => rpc' = "idle" /\ leaked' = leaked + 1]_vars

C13_Witness ==
    /\ rpc = "raised"
    /\ exc.at = "wait"
    /\ container = "exited"

C13_WitnessRemoved ==
    /\ rpc = "raised"
    /\ exc.at = "check"
    /\ container = "removed"
    /\ leaked > 0

====
